---------------------------- MODULE Spec2Model ----------------------------
(***************************************************************************)
(* Model of the lam4 bidirectional type checker                            *)
(* (lam4-parser/src/language/type-system/infer.ts and type-tags.ts) and of *)
(* the scope provider that consults it for the right-hand side of a join.  *)
(*                                                                         *)
(* synth / check / synthNewNode are recursive TypeScript functions; they   *)
(* are modelled as recursive operators that thread the TypeEnv (the        *)
(* mutable cache), the allocation counters (object identity of the tags)   *)
(* and the call depth, and that return the tag or the exception raised.    *)
(* getSigAncestors is a worklist loop; it is modelled both as a loop of    *)
(* single iterations (actions) and as the operator that runs the same      *)
(* iteration to completion (used by the scope provider).                   *)
(***************************************************************************)
EXTENDS Integers, Sequences, FiniteSets, TLC

VARIABLES
    env,      \* the shared TypeEnv: envMap, node -> tag (NoTag when absent)
    heap,     \* number of tag objects allocated so far, per allocation site
    ncalls,   \* number of driver calls made on the shared TypeEnv
    last,     \* the last driver call: its arguments and what it returned
    first,    \* node -> the tag the driver's first synth call on it returned
    parents,  \* SigDecl.parents of every Sig: a list of references
    ancSig,   \* getSigAncestors: the argument sig
    seen,     \* getSigAncestors: the Set seen, in insertion order
    toVisit,  \* getSigAncestors: the worklist
    ancPc,    \* getSigAncestors: "idle" | "loop" | "done"
    ancOut,   \* getSigAncestors: the returned array
    mapObjs,  \* the Map objects created for TypeEnvs: mapObjs[m] is the content of Map m
    envMap,   \* the TypeEnv objects created: envMap[o] is the Map held by o.envMap
    envOp     \* the last extendWith call and the receiver of the last set call

vars ==
    <<env, heap, ncalls, last, first, parents, ancSig, seen, toVisit, ancPc, ancOut,
      mapObjs, envMap, envOp>>

(***************************************************************************)
(* Bounds                                                                  *)
(***************************************************************************)
\* Depth of nested synth/check calls at which the engine's call stack is
\* exhausted (RangeError: Maximum call stack size exceeded).
MaxDepth == 8
\* Number of driver calls made on one shared TypeEnv.
MaxCalls == 2
\* Number of TypeEnv objects created.
MaxEnvs == 2

(***************************************************************************)
(* The syntax tree (the input; the checker never mutates it)               *)
(***************************************************************************)
Null == "null"

Sigs == {"SigA", "SigB", "SigC", "SigD"}

\* An unresolved parent reference (Reference.ref is undefined).
NoRef == "noref"

Ast ==
    \* concept A { r : String }   concept B   concept C   concept D { own : Integer }
       "SigA"      :> [kind |-> "SigDecl", container |-> Null, name |-> "A", relations |-> <<"RelA_r">>]
    @@ "SigB"      :> [kind |-> "SigDecl", container |-> Null, name |-> "B", relations |-> <<>>]
    @@ "SigC"      :> [kind |-> "SigDecl", container |-> Null, name |-> "C", relations |-> <<>>]
    @@ "SigD"      :> [kind |-> "SigDecl", container |-> Null, name |-> "D", relations |-> <<"RelD_own">>]
    @@ "RelA_r"    :> [kind |-> "Relation", container |-> "SigA", name |-> "r", relatum |-> "TA_r"]
    @@ "TA_r"      :> [kind |-> "BuiltinType", container |-> "RelA_r", annot |-> "String"]
    @@ "RelD_own"  :> [kind |-> "Relation", container |-> "SigD", name |-> "own", relatum |-> "TA_own"]
    @@ "TA_own"    :> [kind |-> "BuiltinType", container |-> "RelD_own", annot |-> "Integer"]
    \* xD : D    xB : B    xU : <unlinked>
    @@ "xD"        :> [kind |-> "VarDecl", container |-> Null, varType |-> "TA_xD", value |-> Null]
    @@ "TA_xD"     :> [kind |-> "CustomTypeDef", container |-> "xD", ref |-> "SigD"]
    @@ "xB"        :> [kind |-> "VarDecl", container |-> Null, varType |-> "TA_xB", value |-> Null]
    @@ "TA_xB"     :> [kind |-> "CustomTypeDef", container |-> "xB", ref |-> "SigB"]
    @@ "xU"        :> [kind |-> "VarDecl", container |-> Null, varType |-> "TA_xU", value |-> Null]
    @@ "TA_xU"     :> [kind |-> "CustomTypeDef", container |-> "xU", ref |-> Null]
    \* vCyc = vCyc    vBad = <unlinked reference>    vNum = 7
    @@ "vCyc"      :> [kind |-> "VarDecl", container |-> Null, varType |-> Null, value |-> "RefCyc"]
    @@ "RefCyc"    :> [kind |-> "Ref", container |-> "vCyc", ref |-> "vCyc", refText |-> "vCyc"]
    @@ "vBad"      :> [kind |-> "VarDecl", container |-> Null, varType |-> Null, value |-> "RefBad"]
    @@ "RefBad"    :> [kind |-> "Ref", container |-> "vBad", ref |-> Null, refText |-> "nope"]
    @@ "vNum"      :> [kind |-> "VarDecl", container |-> Null, varType |-> Null, value |-> "Num7"]
    @@ "Num7"      :> [kind |-> "NumberLiteral", container |-> "vNum"]
    \* xD `s` own     xD `s` r     xD `s` zz     "s" `s` own
    @@ "JoinOwn"   :> [kind |-> "Join", container |-> Null, left |-> "JoinOwn_l", right |-> "JoinOwn_r"]
    @@ "JoinOwn_l" :> [kind |-> "Ref", container |-> "JoinOwn", ref |-> "xD", refText |-> "xD"]
    @@ "JoinOwn_r" :> [kind |-> "Ref", container |-> "JoinOwn", ref |-> Null, refText |-> "own"]
    @@ "JoinInh"   :> [kind |-> "Join", container |-> Null, left |-> "JoinInh_l", right |-> "JoinInh_r"]
    @@ "JoinInh_l" :> [kind |-> "Ref", container |-> "JoinInh", ref |-> "xD", refText |-> "xD"]
    @@ "JoinInh_r" :> [kind |-> "Ref", container |-> "JoinInh", ref |-> Null, refText |-> "r"]
    @@ "JoinMiss"  :> [kind |-> "Join", container |-> Null, left |-> "JoinMiss_l", right |-> "JoinMiss_r"]
    @@ "JoinMiss_l" :> [kind |-> "Ref", container |-> "JoinMiss", ref |-> "xD", refText |-> "xD"]
    @@ "JoinMiss_r" :> [kind |-> "Ref", container |-> "JoinMiss", ref |-> Null, refText |-> "zz"]
    @@ "JoinStr"   :> [kind |-> "Join", container |-> Null, left |-> "JoinStr_l", right |-> "JoinStr_r"]
    @@ "JoinStr_l" :> [kind |-> "StringLiteral", container |-> "JoinStr"]
    @@ "JoinStr_r" :> [kind |-> "Ref", container |-> "JoinStr", ref |-> Null, refText |-> "own"]
    \* 1 + 2      3 < 4      true && false
    @@ "Plus12"    :> [kind |-> "BinExpr", container |-> Null, op |-> "OpPlus", left |-> "Num1", right |-> "Num2"]
    @@ "Num1"      :> [kind |-> "NumberLiteral", container |-> "Plus12"]
    @@ "Num2"      :> [kind |-> "NumberLiteral", container |-> "Plus12"]
    @@ "Lt34"      :> [kind |-> "BinExpr", container |-> Null, op |-> "OpLt", left |-> "Num3", right |-> "Num4"]
    @@ "Num3"      :> [kind |-> "NumberLiteral", container |-> "Lt34"]
    @@ "Num4"      :> [kind |-> "NumberLiteral", container |-> "Lt34"]
    @@ "AndTF"     :> [kind |-> "BinExpr", container |-> Null, op |-> "OpAnd", left |-> "BoolT", right |-> "BoolF"]
    @@ "BoolT"     :> [kind |-> "BooleanLiteral", container |-> "AndTF"]
    @@ "BoolF"     :> [kind |-> "BooleanLiteral", container |-> "AndTF"]
    \* if (true) then 1 else 2
    @@ "IteOk"     :> [kind |-> "IfThenElseExpr", container |-> Null, condition |-> "IteOk_c", then |-> "IteOk_t", else |-> "IteOk_e"]
    @@ "IteOk_c"   :> [kind |-> "BooleanLiteral", container |-> "IteOk"]
    @@ "IteOk_t"   :> [kind |-> "NumberLiteral", container |-> "IteOk"]
    @@ "IteOk_e"   :> [kind |-> "NumberLiteral", container |-> "IteOk"]
    \* f(x) : Integer => Boolean = x       f(1)
    @@ "f"         :> [kind |-> "FunDecl", container |-> Null, name |-> "f", params |-> <<"f_x">>, types |-> <<"f_T0", "f_T1">>, body |-> "f_body"]
    @@ "f_x"       :> [kind |-> "Param", container |-> "f", name |-> "x"]
    @@ "f_T0"      :> [kind |-> "BuiltinType", container |-> "f", annot |-> "Integer"]
    @@ "f_T1"      :> [kind |-> "BuiltinType", container |-> "f", annot |-> "Boolean"]
    @@ "f_body"    :> [kind |-> "Ref", container |-> "f", ref |-> "f_x", refText |-> "x"]
    @@ "AppF1"     :> [kind |-> "FunctionApplication", container |-> Null, func |-> "AppF1_f", args |-> <<"AppF1_a">>]
    @@ "AppF1_f"   :> [kind |-> "Ref", container |-> "AppF1", ref |-> "f", refText |-> "f"]
    @@ "AppF1_a"   :> [kind |-> "NumberLiteral", container |-> "AppF1"]
    \* predicate pr(y : Integer)
    @@ "pr"        :> [kind |-> "PredicateDecl", container |-> Null, name |-> "pr", params |-> <<"pr_p">>, body |-> Null]
    @@ "pr_p"      :> [kind |-> "ParamTypePair", container |-> "pr", param |-> "pr_y", type |-> "pr_T"]
    @@ "pr_y"      :> [kind |-> "Param", container |-> "pr_p", name |-> "y"]
    @@ "pr_T"      :> [kind |-> "BuiltinType", container |-> "pr_p", annot |-> "Integer"]
    \* 1 + true
    @@ "PlusMix"   :> [kind |-> "BinExpr", container |-> Null, op |-> "OpPlus", left |-> "Mix_l", right |-> "Mix_r"]
    @@ "Mix_l"     :> [kind |-> "NumberLiteral", container |-> "PlusMix"]
    @@ "Mix_r"     :> [kind |-> "BooleanLiteral", container |-> "PlusMix"]
    \* if (1) then 1 else 2
    @@ "IteBad"    :> [kind |-> "IfThenElseExpr", container |-> Null, condition |-> "IteBad_c", then |-> "IteBad_t", else |-> "IteBad_e"]
    @@ "IteBad_c"  :> [kind |-> "NumberLiteral", container |-> "IteBad"]
    @@ "IteBad_t"  :> [kind |-> "NumberLiteral", container |-> "IteBad"]
    @@ "IteBad_e"  :> [kind |-> "NumberLiteral", container |-> "IteBad"]
    \* f(true)    f()    f(1, true)    vNum(1)
    @@ "AppFT"     :> [kind |-> "FunctionApplication", container |-> Null, func |-> "AppFT_f", args |-> <<"AppFT_a">>]
    @@ "AppFT_f"   :> [kind |-> "Ref", container |-> "AppFT", ref |-> "f", refText |-> "f"]
    @@ "AppFT_a"   :> [kind |-> "BooleanLiteral", container |-> "AppFT"]
    @@ "AppF0"     :> [kind |-> "FunctionApplication", container |-> Null, func |-> "AppF0_f", args |-> <<>>]
    @@ "AppF0_f"   :> [kind |-> "Ref", container |-> "AppF0", ref |-> "f", refText |-> "f"]
    @@ "AppF2"     :> [kind |-> "FunctionApplication", container |-> Null, func |-> "AppF2_f", args |-> <<"AppF2_a", "AppF2_b">>]
    @@ "AppF2_f"   :> [kind |-> "Ref", container |-> "AppF2", ref |-> "f", refText |-> "f"]
    @@ "AppF2_a"   :> [kind |-> "NumberLiteral", container |-> "AppF2"]
    @@ "AppF2_b"   :> [kind |-> "BooleanLiteral", container |-> "AppF2"]
    @@ "AppX"      :> [kind |-> "FunctionApplication", container |-> Null, func |-> "AppX_f", args |-> <<"AppX_a">>]
    @@ "AppX_f"    :> [kind |-> "Ref", container |-> "AppX", ref |-> "vNum", refText |-> "vNum"]
    @@ "AppX_a"    :> [kind |-> "NumberLiteral", container |-> "AppX"]
    \* function declarations with: no type slot and no parameter; one slot
    \* and one parameter; two slots and no parameter; one slot and no parameter
    @@ "g00"       :> [kind |-> "FunDecl", container |-> Null, name |-> "g00", params |-> <<>>, types |-> <<>>, body |-> "g_body"]
    @@ "g11"       :> [kind |-> "FunDecl", container |-> Null, name |-> "g11", params |-> <<"g11_x">>, types |-> <<"g11_T0">>, body |-> "g_body"]
    @@ "g11_x"     :> [kind |-> "Param", container |-> "g11", name |-> "x"]
    @@ "g11_T0"    :> [kind |-> "BuiltinType", container |-> "g11", annot |-> "Integer"]
    @@ "g20"       :> [kind |-> "FunDecl", container |-> Null, name |-> "g20", params |-> <<>>, types |-> <<"g20_T0", "g20_T1">>, body |-> "g_body"]
    @@ "g20_T0"    :> [kind |-> "BuiltinType", container |-> "g20", annot |-> "Integer"]
    @@ "g20_T1"    :> [kind |-> "BuiltinType", container |-> "g20", annot |-> "Boolean"]
    @@ "g10"       :> [kind |-> "FunDecl", container |-> Null, name |-> "g10", params |-> <<>>, types |-> <<"g10_T0">>, body |-> "g_body"]
    @@ "g10_T0"    :> [kind |-> "BuiltinType", container |-> "g10", annot |-> "String"]
    @@ "g_body"    :> [kind |-> "NumberLiteral", container |-> Null]

Nodes == DOMAIN Ast

kindOf(term) == IF term = Null THEN "null" ELSE Ast[term].kind

\* The parent references the declarations above are linked to: the diamond
\* D -> B, C;  B -> A;  C -> A.
DiamondParents ==
    "SigA" :> <<>> @@ "SigB" :> <<"SigA">> @@ "SigC" :> <<"SigA">> @@ "SigD" :> <<"SigB", "SigC">>


(***************************************************************************)
(* Type tags (type-tags.ts).  A tag is an object: id is its identity, the  *)
(* pair <<allocation site, serial number at that site>>.                   *)
(***************************************************************************)
\* No tag: what lookup returns for an absent node (null).
NoTag == [tag |-> "None"]

\* JavaScript undefined (the last element of an empty array).
Undefined == [tag |-> "undefined"]

BooleanTTag(id, literal) == [tag |-> "Boolean", id |-> id, literal |-> literal]

StringTTag(id, literal) == [tag |-> "String", id |-> id, literal |-> literal]

IntegerTTag(id, literal) == [tag |-> "Integer", id |-> id, literal |-> literal]

FunctionTTag(id, parameters, returnType) ==
    [tag |-> "Function", id |-> id, parameters |-> parameters, returnType |-> returnType]

PredicateTTag(id, parameters) == [tag |-> "Predicate", id |-> id, parameters |-> parameters]

SigTTag(id, sig) == [tag |-> "Sig", id |-> id, sig |-> sig]

RelationTTag(id, relationNode, parentSigType, relatumType) ==
    [tag |-> "Relation", id |-> id, relationNode |-> relationNode,
     parentSig |-> parentSigType.sig,
     relationType |-> <<parentSigType, relatumType>>]

ErrorTypeTag(id, astNode, message) ==
    [tag |-> "TCError", id |-> id, astNode |-> astNode, message |-> message]

isBooleanTTag(t) == t.tag = "Boolean"

isStringTTag(t) == t.tag = "String"

isUnitTTag(t) == t.tag = "Unit"

isIntegerTTag(t) == t.tag = "Integer"

isFunctionTTag(t) == t.tag = "Function"

isPredicateTTag(t) == t.tag = "Predicate"

isSigTTag(t) == t.tag = "Sig"

isRelationTTag(t) == t.tag = "Relation"

isErrorTypeTag(t) == t.tag = "TCError"

RECURSIVE sameTypeAs(_, _)

\* FunctionTTag.paramTagsCoincide / PredicateTTag.paramTagsCoincide: equal
\* arity and pairwise the same parameter types (the return type is not read).
paramTagsCoincide(this, other) ==
    /\ other.tag = this.tag
    /\ Len(this.parameters) = Len(other.parameters)
    /\ \A i \in 1..Len(this.parameters) :
           sameTypeAs(this.parameters[i].type, other.parameters[i].type)

\* SigTTag.sameSigAs: the same declaration node (not used by sameTypeAs).
sameSigAs(this, other) == isSigTTag(other) /\ other.sig = this.sig

\* SigTTag.sameTypeAs.
SigSameTypeAs(this, other) == isSigTTag(other)

\* ErrorTypeTag.sameTypeAs.
ErrorSameTypeAs(this, other) ==
    isErrorTypeTag(other) /\ this.astNode = other.astNode /\ this.message = other.message

\* RelationTTag.sameTypeAs: referential equality of the two tag objects.
RelationSameTypeAs(this, other) == other.tag = "Relation" /\ this.id = other.id

\* this.sameTypeAs(other), dispatched on the class of this.
sameTypeAs(this, other) ==
    CASE this.tag = "Boolean"   -> isBooleanTTag(other)
      [] this.tag = "String"    -> isStringTTag(other)
      [] this.tag = "Unit"      -> isUnitTTag(other)
      [] this.tag = "Integer"   -> isIntegerTTag(other)
      [] this.tag = "Function"  -> paramTagsCoincide(this, other)
      [] this.tag = "Predicate" -> paramTagsCoincide(this, other)
      [] this.tag = "Sig"       -> SigSameTypeAs(this, other)
      [] this.tag = "Relation"  -> RelationSameTypeAs(this, other)
      [] this.tag = "TCError"   -> ErrorSameTypeAs(this, other)

\* joinOnLeft as it would be if it returned the first component of the
\* relation type (the owner) instead of the second (the relatum).
joinOnLeftOwner(this, left) ==
    IF this.parentSig = left.sig THEN this.relationType[1] ELSE NoTag

\* RelationTTag.joinOnLeft: the relatum type when the relation's owner is the
\* left Sig itself, else null.
joinOnLeft(this, left) ==
    IF this.parentSig = left.sig THEN this.relationType[2] ELSE NoTag

\* FunctionTTag.getParameters.
getParameters(this) == this.parameters

\* FunctionTTag.getTypeOfParam: the declared type of the parameter, or none.
getTypeOfParam(this, param) ==
    IF \E i \in 1..Len(this.parameters) : this.parameters[i].param = param
    THEN LET i == CHOOSE j \in 1..Len(this.parameters) : this.parameters[j].param = param
         IN this.parameters[i].type
    ELSE NoTag

RECURSIVE toString(_)

RECURSIVE paramsToString(_, _)

\* parameters.map(p => `${p.param.name}: ${p.type}`).join(', ') from index i.
paramsToString(ps, i) ==
    IF i > Len(ps) THEN <<>>
    ELSE <<Ast[ps[i].param].name, ":">> \o toString(ps[i].type)
         \o (IF i < Len(ps) THEN <<",">> ELSE <<>>) \o paramsToString(ps, i + 1)

\* tag.toString(); a string is modelled as the sequence of its pieces.
toString(t) ==
    CASE t.tag = "Function"  -> <<"(">> \o paramsToString(t.parameters, 1) \o <<") =>">>
                                \o toString(t.returnType)
      [] t.tag = "Predicate" -> <<"Predicate[(">> \o paramsToString(t.parameters, 1) \o <<")]">>
      [] t.tag = "TCError"   -> <<"Error:">> \o t.message
      [] OTHER               -> <<t.tag>>

(***************************************************************************)
(* TypeEnv                                                                 *)
(***************************************************************************)
\* new TypeEnv(): an empty envMap.
EmptyEnv == [n \in Nodes |-> NoTag]

\* TypeEnv.lookup: envMap.get(node) ?? null.
lookup(e, node) == IF e[node] = Undefined THEN NoTag ELSE e[node]

\* TypeEnv.set.
set(e, node, type) == [e EXCEPT ![node] = type]

RECURSIVE extendWith(_, _)

\* TypeEnv.extendWith: a new map, this map's entries then the pairs' (a later
\* pair wins over an earlier one and over the receiver).
extendWith(e, nodeTypePairs) ==
    IF nodeTypePairs = <<>> THEN e
    ELSE extendWith([e EXCEPT ![Head(nodeTypePairs).node] = Head(nodeTypePairs).type],
                    Tail(nodeTypePairs))

\* extendWith as it would be if it merged the pairs into the receiver's own
\* Map and wrapped that Map: ms are the Map objects, m the receiver's Map.
newEnvMapInPlace(ms, m, nodeTypePairs) ==
    [mapObjs |-> [ms EXCEPT ![m] = extendWith(@, nodeTypePairs)], map |-> m]

\* const newEnvMap = new Map([...this.envMap, ...newPairMap]): a new Map
\* object holding the merged entries; ms are the Map objects so far, m the
\* receiver's Map.  Gives the Map objects after the call and the new Map.
newEnvMap(ms, m, nodeTypePairs) ==
    [mapObjs |-> Append(ms, extendWith(ms[m], nodeTypePairs)), map |-> Len(ms) + 1]

(***************************************************************************)
(* Allocation: `new XTag(...)` at a site takes the site's next serial      *)
(* number.  h = [heap, entered] is what a call threads besides the env:    *)
(* the allocation counters and the nodes synthNewNode was entered for.     *)
(***************************************************************************)
Sites == Nodes \cup {Null}

newId(h, site) == <<site, h.heap[site]>>

alloc(h, site) == [h EXCEPT !.heap[site] = @ + 1]

\* What a call gives back: the tag returned (or the exception thrown), the
\* env as the call left it, and the threaded h.
Return(tag, e, h) == [tag |-> tag, env |-> e, h |-> h, exc |-> "none"]

Throw(exc, e, h) == [tag |-> NoTag, env |-> e, h |-> h, exc |-> exc]

\* return new ErrorTypeTag(astNode, message); the allocation site is astNode.
ReturnError(e, h, astNode, message) ==
    Return(ErrorTypeTag(newId(h, astNode), astNode, message), e, alloc(h, astNode))


(***************************************************************************)
(* Synthesis and checking (infer.ts).  Every operator below takes the env  *)
(* e, the threaded h and the depth d of the call, and gives back a         *)
(* Return/Throw record.  A thrown exception unwinds through every caller:  *)
(* the writes already made to the env stay, the pending ones are skipped.  *)
(***************************************************************************)
ARITH_OPERATORS == {"OpPlus", "OpMinus", "OpMult", "OpDiv"}

\* isComparisonOp of the generated AST: the comparison operator node types.
ComparisonOps == {"OpLt", "OpLte", "OpGt", "OpGte", "OpEquals", "OpNotEquals"}

isComparisonOp(op) == op \in ComparisonOps

\* zip of utils: pairs up to the length of the shorter list.
zipLen(xs, ys) == IF Len(xs) < Len(ys) THEN Len(xs) ELSE Len(ys)

RECURSIVE invoke(_, _, _, _, _, _)

\* A call of synth(env, term) made from inside the engine.
callSynth(e, h, d, term) == invoke("synth", e, h, d, term, NoTag)

\* A call of check(env, term, type) made from inside the engine.
callCheck(e, h, d, term, type) == invoke("check", e, h, d, term, type)

\* Sequencing: when the call r threw, the exception propagates; otherwise
\* the rest of the function body K runs on what r returned.
andThen(r, K(_)) == IF r.exc # "none" THEN r ELSE K(r)

\* inferTypeAnnot with builtinTypeAnnotToTypeTag and customTypeAnnotToTypeTag.
inferTypeAnnot(e, h, typeAnnot) ==
    CASE kindOf(typeAnnot) = "BuiltinType" ->
           (CASE Ast[typeAnnot].annot = "String" ->
                   Return(StringTTag(newId(h, typeAnnot), Null), e, alloc(h, typeAnnot))
              [] Ast[typeAnnot].annot = "Integer" ->
                   Return(IntegerTTag(newId(h, typeAnnot), Null), e, alloc(h, typeAnnot))
              [] Ast[typeAnnot].annot = "Boolean" ->
                   Return(BooleanTTag(newId(h, typeAnnot), Null), e, alloc(h, typeAnnot)))
      [] kindOf(typeAnnot) = "CustomTypeDef" ->
           IF Ast[typeAnnot].ref = Null
           THEN ReturnError(e, h, typeAnnot,
                    <<"Type annotation", "[object Object]",
                      "not found because of an issue with linking">>)
           ELSE Return(SigTTag(newId(h, typeAnnot), Ast[typeAnnot].ref), e, alloc(h, typeAnnot))
      [] OTHER ->
           ReturnError(e, h, typeAnnot,
               <<"Type annotation", "[object Object]", "not recognized">>)

\* The BinExpr case as it would be if only the left result were compared.
checkBinExprLeftOnly(e, h, d, expr, type) ==
    andThen(callCheck(e, h, d + 1, Ast[expr].left, type), LAMBDA l :
    andThen(callCheck(l.env, l.h, d + 1, Ast[expr].right, type), LAMBDA r :
        IF sameTypeAs(l.tag, type)
        THEN Return(type, r.env, r.h)
        ELSE ReturnError(r.env, r.h, expr, <<"Type error in binary expression.">>)))

\* check, BinExpr case (checkChildrenHaveSameType).
checkBinExpr(e, h, d, expr, type) ==
    andThen(callCheck(e, h, d + 1, Ast[expr].left, type), LAMBDA l :
    andThen(callCheck(l.env, l.h, d + 1, Ast[expr].right, type), LAMBDA r :
        IF sameTypeAs(l.tag, type) /\ sameTypeAs(r.tag, type)
        THEN Return(type, r.env, r.h)
        ELSE ReturnError(r.env, r.h, expr,
                 <<"Type error in binary expression. Expected type to be">>
                 \o toString(type) \o <<", but got">> \o toString(l.tag)
                 \o <<"and">> \o toString(r.tag))))

\* The list as it would be if no parameter were bound.
paramPairsNone(type) == <<>>

\* The NodeTypePair list check builds from the expected function type.
paramPairs(type) ==
    [i \in 1..Len(getParameters(type)) |->
        [node |-> getParameters(type)[i].param, type |-> getParameters(type)[i].type]]

\* As it would be if the body were checked in the caller's env object itself.
inEnvLeaking(e, r) == r

\* The callee worked on an env object of its own: the caller's env object is
\* as it was.
inEnv(e, r) == [r EXCEPT !.env = e]

\* check, FunDecl case: the body is checked in a new, extended env.
checkFunDecl(e, h, d, fundecl, type) ==
    IF ~isFunctionTTag(type)
    THEN ReturnError(e, h, fundecl,
             <<"Function declaration must be annotated with a function type">>)
    ELSE inEnv(e, callCheck(extendWith(e, paramPairs(type)), h, d + 1,
                            Ast[fundecl].body, type.returnType))

\* check, PredicateDecl case.
checkPredicateDecl(e, h, d, predDecl, type) == ReturnError(e, h, predDecl, <<"TODO">>)

iteError(r, ite) ==
    ReturnError(r.env, r.h, ite,
        <<"Type error in if-then-else expression",
          "(a more helpful error msg is possible with more work)">>)

\* The IfThenElseExpr case as it would be if the condition were not examined.
checkIfThenElseAnyCondition(e, h, d, ite, type) ==
    andThen(callSynth(e, h, d + 1, Ast[ite].condition), LAMBDA c :
        andThen(callSynth(c.env, c.h, d + 1, Ast[ite].then), LAMBDA t :
            IF ~sameTypeAs(t.tag, type) THEN iteError(t, ite)
            ELSE andThen(callSynth(t.env, t.h, d + 1, Ast[ite].else), LAMBDA el :
                IF ~sameTypeAs(el.tag, type) THEN iteError(el, ite)
                ELSE Return(type, el.env, el.h))))

\* check, IfThenElseExpr case; && evaluates left to right and stops at the
\* first false operand.
checkIfThenElse(e, h, d, ite, type) ==
    andThen(callSynth(e, h, d + 1, Ast[ite].condition), LAMBDA c :
        IF ~isBooleanTTag(c.tag) THEN iteError(c, ite)
        ELSE andThen(callSynth(c.env, c.h, d + 1, Ast[ite].then), LAMBDA t :
            IF ~sameTypeAs(t.tag, type) THEN iteError(t, ite)
            ELSE andThen(callSynth(t.env, t.h, d + 1, Ast[ite].else), LAMBDA el :
                IF ~sameTypeAs(el.tag, type) THEN iteError(el, ite)
                ELSE Return(type, el.env, el.h))))

\* check, otherwise case: synthesize and compare with sameTypeAs.
checkOtherwise(e, h, d, term, type) ==
    andThen(callSynth(e, h, d + 1, term), LAMBDA r :
        IF sameTypeAs(r.tag, type) THEN Return(type, r.env, r.h)
        ELSE ReturnError(r.env, r.h, term, <<"Type error">>))

check(e, h, d, term, type) ==
    IF d > MaxDepth THEN Throw("RangeError", e, h)
    ELSE CASE kindOf(term) = "BinExpr"        -> checkBinExpr(e, h, d, term, type)
           [] kindOf(term) = "FunDecl"        -> checkFunDecl(e, h, d, term, type)
           [] kindOf(term) = "PredicateDecl"  -> checkPredicateDecl(e, h, d, term, type)
           [] kindOf(term) = "IfThenElseExpr" -> checkIfThenElse(e, h, d, term, type)
           [] OTHER                           -> checkOtherwise(e, h, d, term, type)

\* inferBinExpr as it would be if the type chosen from the operator were
\* returned without checking the expression against it.
inferBinExprUnchecked(e, h, d, expr) ==
    IF isComparisonOp(Ast[expr].op) \/ Ast[expr].op \in {"OpAnd", "OpOr"}
    THEN Return(BooleanTTag(newId(h, expr), Null), e, alloc(h, expr))
    ELSE IF Ast[expr].op \in ARITH_OPERATORS
    THEN Return(IntegerTTag(newId(h, expr), Null), e, alloc(h, expr))
    ELSE ReturnError(e, h, expr, <<"Type of binary expression cannot be inferred">>)

inferBinExpr(e, h, d, expr) ==
    IF isComparisonOp(Ast[expr].op) \/ Ast[expr].op \in {"OpAnd", "OpOr"}
    THEN callCheck(e, alloc(h, expr), d + 1, expr, BooleanTTag(newId(h, expr), Null))
    ELSE IF Ast[expr].op \in ARITH_OPERATORS
    THEN callCheck(e, alloc(h, expr), d + 1, expr, IntegerTTag(newId(h, expr), Null))
    ELSE ReturnError(e, h, expr, <<"Type of binary expression cannot be inferred">>)

\* What a step of a map over a list returns: the element x put before the
\* list that the rest of the map returned.
consResult(x, rest) == Return(<<x>> \o rest.tag, rest.env, rest.h)

RECURSIVE inferParamTypes(_, _, _, _)

\* predDecl.params.map(pair => ({param, type: inferTypeAnnot(env, pair.type)}))
\* from index i on; tag holds the list built.
inferParamTypes(e, h, pairs, i) ==
    IF i > Len(pairs) THEN Return(<<>>, e, h)
    ELSE andThen(inferTypeAnnot(e, h, Ast[pairs[i]].type), LAMBDA t :
         andThen(inferParamTypes(t.env, t.h, pairs, i + 1), LAMBDA rest :
             consResult([param |-> Ast[pairs[i]].param, type |-> t.tag], rest)))

predicateTTagFromPredDecl(e, h, predDecl) ==
    andThen(inferParamTypes(e, h, Ast[predDecl].params, 1), LAMBDA ps :
        Return(PredicateTTag(newId(ps.h, predDecl), ps.tag), ps.env, alloc(ps.h, predDecl)))

RECURSIVE synthAll(_, _, _, _, _)

\* terms.map(synth.bind(undefined, env)) from index i on; tag holds the list.
synthAll(e, h, d, terms, i) ==
    IF i > Len(terms) THEN Return(<<>>, e, h)
    ELSE andThen(callSynth(e, h, d + 1, terms[i]), LAMBDA t :
         andThen(synthAll(t.env, t.h, d, terms, i + 1), LAMBDA rest :
             consResult(t.tag, rest)))

\* paramAndRetTypes.slice(0, -1)
argTypesOf(paramAndRetTypes) == SubSeq(paramAndRetTypes, 1, Len(paramAndRetTypes) - 1)

\* paramAndRetTypes[paramAndRetTypes.length - 1]
retTypeOf(paramAndRetTypes) ==
    IF Len(paramAndRetTypes) = 0 THEN Undefined
    ELSE paramAndRetTypes[Len(paramAndRetTypes)]

\* zip(fundecl.params, argTypes).map(t => ({param: t[0], type: t[1]}))
argTypeTagsOf(params, argTypes) ==
    [i \in 1..zipLen(params, argTypes) |-> [param |-> params[i], type |-> argTypes[i]]]

functionTTagFromFuncDecl(e, h, d, fundecl) ==
    andThen(synthAll(e, h, d, Ast[fundecl].types, 1), LAMBDA all :
        IF Len(argTypesOf(all.tag)) # Len(Ast[fundecl].params)
        THEN ReturnError(all.env, all.h, fundecl,
                 <<"Number of parameters and parameter types do not match">>)
        ELSE \* the trace message calls funcType.toString(), which calls
             \* returnType.toString()
             IF retTypeOf(all.tag) = Undefined THEN Throw("TypeError", all.env, all.h)
             ELSE Return(FunctionTTag(newId(all.h, fundecl),
                                      argTypeTagsOf(Ast[fundecl].params, argTypesOf(all.tag)),
                                      retTypeOf(all.tag)),
                         all.env, alloc(all.h, fundecl)))

synthRef(e, h, d, ref) ==
    IF Ast[ref].ref # Null THEN callSynth(e, h, d + 1, Ast[ref].ref)
    ELSE ReturnError(e, h, ref,
             <<"Can't typecheck ref because reference can't be resolved.",
               "reftxt:", Ast[ref].refText>>)

\* find as it would be if the callback accepted every relation.
findRelationAny(relations, name) ==
    IF relations # <<>> THEN relations[1] ELSE Null

\* relations.find(relNode => relNode.name === name): the first relation of
\* the list with that name, or Null.
findRelation(relations, name) ==
    IF \E i \in 1..Len(relations) : Ast[relations[i]].name = name
    THEN relations[CHOOSE i \in 1..Len(relations) :
                       /\ Ast[relations[i]].name = name
                       /\ \A j \in 1..(i - 1) : Ast[relations[j]].name # name]
    ELSE Null

\* The relations synthJoin looks the right-hand name up in: sig.relations.
joinSearchedRelations(sig) == Ast[sig].relations

\* synthJoin once a relation with the right-hand name was found.
joinMatching(l, d, term, matchingRelation) ==
    andThen(callSynth(l.env, l.h, d + 1, matchingRelation), LAMBDA rt :
        IF ~isRelationTTag(rt.tag)
        THEN ReturnError(rt.env, rt.h, matchingRelation,
                 <<"Relation should have a RelationTTag, but it instead has">>
                 \o toString(rt.tag))
        ELSE IF joinOnLeft(rt.tag, l.tag) # NoTag
        THEN Return(joinOnLeft(rt.tag, l.tag), rt.env, rt.h)
        ELSE ReturnError(rt.env, rt.h, term, <<"join should have worked">>))

synthJoin(e, h, d, term) ==
    andThen(callSynth(e, h, d + 1, Ast[term].left), LAMBDA l :
        IF isSigTTag(l.tag)
        THEN IF findRelation(joinSearchedRelations(l.tag.sig), Ast[Ast[term].right].refText) # Null
             THEN joinMatching(l, d, term,
                      findRelation(joinSearchedRelations(l.tag.sig),
                                   Ast[Ast[term].right].refText))
             ELSE ReturnError(l.env, l.h, term,
                      <<"Relatum", Ast[Ast[term].right].refText, "not found in",
                        Ast[l.tag.sig].name>>)
        ELSE ReturnError(l.env, l.h, Ast[term].left,
                 <<"The type of something to the left of a join / field access operator",
                   "should be a Concept, and not a">> \o toString(l.tag)))

\* synthNewNode, VarDecl case.
synthVarDecl(e, h, d, term) ==
    IF Ast[term].varType # Null THEN callSynth(e, h, d + 1, Ast[term].varType)
    ELSE callSynth(e, h, d + 1, Ast[term].value)

\* synthNewNode, Param case.
synthParam(e, h, d, term) ==
    andThen(callSynth(e, h, d + 1, Ast[term].container), LAMBDA p :
        IF isFunctionTTag(p.tag) /\ getTypeOfParam(p.tag, term) # NoTag
        THEN Return(getTypeOfParam(p.tag, term), p.env, p.h)
        ELSE ReturnError(p.env, p.h, term,
                 <<"param either not a param of function or lacks a type annotation">>))

\* synthNewNode, Relation case.
synthRelation(e, h, d, term) ==
    IF kindOf(Ast[term].container) = "SigDecl"
    THEN andThen(callSynth(e, h, d + 1, Ast[term].container), LAMBDA s :
         andThen(callSynth(s.env, s.h, d + 1, Ast[term].relatum), LAMBDA r :
             Return(RelationTTag(newId(r.h, term), term, s.tag, r.tag),
                    r.env, alloc(r.h, term))))
    ELSE ReturnError(e, h, term, <<"Relation should have a Concept as its parent">>)

\* The loop as it would be if no argument were checked.
checkArgsSkipped(e, h, d, args, types, i, acc) == Return(acc, e, h)

RECURSIVE checkArgs(_, _, _, _, _, _, _)

\* The loop over zip(term.args, inferredArgTypes) from pair i on; acc holds
\* typeTag and checkPassed.
checkArgs(e, h, d, args, types, i, acc) ==
    IF i > zipLen(args, types) THEN Return(acc, e, h)
    ELSE andThen(callCheck(e, h, d + 1, args[i], types[i]), LAMBDA c :
             checkArgs(c.env, c.h, d, args, types, i + 1,
                 IF isErrorTypeTag(c.tag)
                 THEN [typeTag |-> c.tag, checkPassed |-> FALSE]
                 ELSE acc))

\* inferredFuncType.getParameters().map(p => p.type)
inferredArgTypesOf(inferredFuncType) ==
    [i \in 1..Len(getParameters(inferredFuncType)) |-> getParameters(inferredFuncType)[i].type]

\* The FunctionApplication case as it would be if the number of arguments
\* had to equal the number of parameters.
synthFunctionApplicationArity(e, h, d, term, typeTag) ==
    andThen(callSynth(e, h, d + 1, Ast[term].func), LAMBDA f :
        IF isFunctionTTag(f.tag) /\ Len(Ast[term].args) = Len(getParameters(f.tag))
        THEN andThen(checkArgs(f.env, f.h, d, Ast[term].args, inferredArgTypesOf(f.tag), 1,
                               [typeTag |-> typeTag, checkPassed |-> TRUE]), LAMBDA loop :
                 IF loop.tag.checkPassed THEN Return(f.tag.returnType, loop.env, loop.h)
                 ELSE Return(loop.tag.typeTag, loop.env, loop.h))
        ELSE ReturnError(f.env, f.h, Ast[term].func, <<"arity">>))

\* synthNewNode, FunctionApplication case; typeTag is the Error the variable
\* typeTag was initialised with.
synthFunctionApplication(e, h, d, term, typeTag) ==
    andThen(callSynth(e, h, d + 1, Ast[term].func), LAMBDA f :
        IF isFunctionTTag(f.tag)
        THEN andThen(checkArgs(f.env, f.h, d, Ast[term].args, inferredArgTypesOf(f.tag), 1,
                               [typeTag |-> typeTag, checkPassed |-> TRUE]), LAMBDA loop :
                 IF loop.tag.checkPassed THEN Return(f.tag.returnType, loop.env, loop.h)
                 ELSE Return(loop.tag.typeTag, loop.env, loop.h))
        ELSE ReturnError(f.env, f.h, Ast[term].func,
                 <<"We expected a function type because of the function application,",
                   "but this is not a function type">>))

\* synthNewNode, PredicateDecl case.
synthPredicateDecl(e, h, d, term) ==
    andThen(predicateTTagFromPredDecl(e, h, term), LAMBDA predType :
        callCheck(predType.env, predType.h, d + 1, term, predType.tag))

\* The dispatch of synthNewNode on the node kind, first match first; typeTag is
\* the Error the variable typeTag was initialised with.
synthDispatch(e, h, d, term, typeTag) ==
    CASE kindOf(term) = "Ref"            -> synthRef(e, h, d, term)
      [] kindOf(term) = "Join"           -> synthJoin(e, h, d, term)
      [] kindOf(term) = "StringLiteral"  ->
             Return(StringTTag(newId(h, term), term), e, alloc(h, term))
      [] kindOf(term) = "BooleanLiteral" ->
             Return(BooleanTTag(newId(h, term), term), e, alloc(h, term))
      [] kindOf(term) = "NumberLiteral"  ->
             Return(IntegerTTag(newId(h, term), term), e, alloc(h, term))
      [] kindOf(term) = "VarDecl"        -> synthVarDecl(e, h, d, term)
      [] kindOf(term) = "Param"          -> synthParam(e, h, d, term)
      [] kindOf(term) = "ParamTypePair"  -> callSynth(e, h, d + 1, Ast[term].type)
      [] kindOf(term) \in {"BuiltinType", "CustomTypeDef"} -> inferTypeAnnot(e, h, term)
      [] kindOf(term) = "SigDecl"        ->
             Return(SigTTag(newId(h, term), term), e, alloc(h, term))
      [] kindOf(term) = "Relation"       -> synthRelation(e, h, d, term)
      [] kindOf(term) = "BinExpr"        -> inferBinExpr(e, h, d, term)
      [] kindOf(term) = "FunDecl"        -> functionTTagFromFuncDecl(e, h, d, term)
      [] kindOf(term) = "FunctionApplication" ->
             synthFunctionApplication(e, h, d, term, typeTag)
      [] kindOf(term) = "PredicateDecl"  -> synthPredicateDecl(e, h, d, term)
      [] OTHER -> ReturnError(e, h, term, <<"Type of term cannot be inferred">>)

\* The memoization write as it would be if only successful types were stored.
memoizeUnlessError(r, term) ==
    IF isErrorTypeTag(r.tag) THEN r ELSE [r EXCEPT !.env = set(r.env, term, r.tag)]

\* The memoization write that ends synthNewNode: env.set(term, typeTag).
memoize(r, term) == [r EXCEPT !.env = set(r.env, term, r.tag)]

\* h once synthNewNode was entered for term.
enter(h, term) == [h EXCEPT !.entered = @ \cup {term}]

synthNewNode(e, h, d, term) ==
    andThen(synthDispatch(e, alloc(enter(h, term), term), d, term,
                          ErrorTypeTag(newId(h, term), term, <<"Could not infer type">>)),
            LAMBDA r : memoize(r, term))

\* synth as it would be without the memoization short-circuit.
synthNoCache(e, h, d, term) ==
    IF d > MaxDepth THEN Throw("RangeError", e, h)
    ELSE IF term = Null
    THEN ReturnError(e, h, term, <<"Cannot infer type for a node that's falsy">>)
    ELSE synthNewNode(e, h, d, term)

synth(e, h, d, term) ==
    IF d > MaxDepth THEN Throw("RangeError", e, h)
    ELSE IF term = Null
    THEN ReturnError(e, h, term, <<"Cannot infer type for a node that's falsy">>)
    ELSE IF lookup(e, term) # NoTag THEN Return(lookup(e, term), e, h)
    ELSE synthNewNode(e, h, d, term)

\* The two mutually recursive entry points, tied into one recursive operator.
invoke(fn, e, h, d, term, type) ==
    IF fn = "synth" THEN synth(e, h, d, term) ELSE check(e, h, d, term, type)

(***************************************************************************)
(* getSigAncestors                                                         *)
(***************************************************************************)
\* As it would be if only the first parent of a Sig were followed.
resolvedParentsFirstOnly(ps) ==
    IF SelectSeq(ps, LAMBDA x : x # NoRef) = <<>> THEN <<>>
    ELSE <<Head(SelectSeq(ps, LAMBDA x : x # NoRef))>>

\* The targets of the resolved references of a parent list, in order
\* (parents.forEach(parent => { if (parent.ref) toVisit.push(parent.ref) })).
resolvedParents(ps) == SelectSeq(ps, LAMBDA x : x # NoRef)

\* The iteration as it would be without seen.add(next).
ancIterNoMark(p, st) ==
    [seen |-> st.seen,
     toVisit |-> SubSeq(st.toVisit, 1, Len(st.toVisit) - 1)
                 \o SelectSeq(p[st.toVisit[Len(st.toVisit)]], LAMBDA x : x # NoRef)]

\* One iteration of the while loop on the pair (seen, toVisit): pop the last
\* element; if it is new, add it to seen and push its resolved parents.
ancIter(p, st) ==
    LET next == st.toVisit[Len(st.toVisit)]
        rest == SubSeq(st.toVisit, 1, Len(st.toVisit) - 1)
    IN IF \A i \in 1..Len(st.seen) : st.seen[i] # next
       THEN [seen |-> Append(st.seen, next), toVisit |-> rest \o resolvedParents(p[next])]
       ELSE [seen |-> st.seen, toVisit |-> rest]

RECURSIVE ancRun(_, _)

\* The while loop run until toVisit is empty; Array.from(seen) is returned.
ancRun(p, st) == IF st.toVisit = <<>> THEN st.seen ELSE ancRun(p, ancIter(p, st))

getSigAncestors(p, sig) == ancRun(p, [seen |-> <<>>, toVisit |-> <<sig>>])

(***************************************************************************)
(* Lam4ScopeProvider                                                       *)
(***************************************************************************)
RECURSIVE flatMapRelations(_, _)

\* sigs.flatMap(s => s.relations) from index i on.
flatMapRelations(sigs, i) ==
    IF i > Len(sigs) THEN <<>>
    ELSE Ast[sigs[i]].relations \o flatMapRelations(sigs, i + 1)

\* scopeSigMembers: the relations of every ancestor of sig.
scopeSigMembers(p, sig) == flatMapRelations(getSigAncestors(p, sig), 1)

\* self.$type === "Ref" && isJoinExpr(self.$container) && container.right === self
isRightmostChildOfJoin(self) ==
    /\ kindOf(self) = "Ref"
    /\ kindOf(Ast[self].container) = "Join"
    /\ Ast[Ast[self].container].right = self

\* getScope for the reference held by node self; tag holds the scope:
\* the relations offered, EMPTY_SCOPE, or the default provider's scope.
getScope(p, h, self) ==
    IF isRightmostChildOfJoin(self)
    THEN andThen(synth(EmptyEnv, h, 1, Ast[Ast[self].container].left), LAMBDA typeOfLeft :
             IF isSigTTag(typeOfLeft.tag)
             THEN Return([scope |-> "members", sig |-> typeOfLeft.tag.sig,
                          relations |-> scopeSigMembers(p, typeOfLeft.tag.sig)],
                         typeOfLeft.env, typeOfLeft.h)
             ELSE Return([scope |-> "empty", sig |-> Null, relations |-> <<>>],
                         typeOfLeft.env, typeOfLeft.h))
    ELSE Return([scope |-> "default", sig |-> Null, relations |-> <<>>], EmptyEnv, h)

(***************************************************************************)
(* The driver: calls on one shared TypeEnv, and scope queries              *)
(***************************************************************************)
\* Expected types a caller of check supplies (constructed outside the engine).
ExtInteger == IntegerTTag(<<"ext", 0>>, Null)

ExtBoolean == BooleanTTag(<<"ext", 1>>, Null)

ExtSigD == SigTTag(<<"ext", 2>>, "SigD")

ExtSigB == SigTTag(<<"ext", 3>>, "SigB")

ExtFun == FunctionTTag(<<"ext", 4>>, <<[param |-> "f_x", type |-> ExtInteger]>>, ExtInteger)

\* (x : Boolean) => Boolean, on the parameter x of f.
ExtFunB == FunctionTTag(<<"ext", 5>>, <<[param |-> "f_x", type |-> ExtBoolean]>>, ExtBoolean)

ExpectedTypes == {ExtInteger, ExtBoolean, ExtSigD, ExtSigB, ExtFun, ExtFunB}

NoScope == [scope |-> "none", sig |-> Null, relations |-> <<>>]

NoCall ==
    [op |-> "none", term |-> Null, expected |-> NoTag, cached |-> NoTag, tag |-> NoTag,
     exc |-> "none", entered |-> {}, scope |-> NoScope, repeat |-> FALSE]

AncIdle ==
    /\ ancSig = Null /\ seen = <<>> /\ toVisit = <<>> /\ ancPc = "idle" /\ ancOut = <<>>

\* No extendWith and no set call was made yet.
NoEnvOp == [op |-> "none", recv |-> 0, ret |-> 0, pairs |-> <<>>, set |-> 0]

\* No TypeEnv object besides the shared one was created.
EnvIdle == mapObjs = <<>> /\ envMap = <<>> /\ envOp = NoEnvOp

Init ==
    /\ env = EmptyEnv
    /\ heap = [s \in Sites |-> 0]
    /\ ncalls = 0
    /\ last = NoCall
    /\ first = EmptyEnv
    /\ parents = DiamondParents
    /\ AncIdle
    /\ EnvIdle

\* What a driver call leaves behind: the env and the heap as the call left
\* them, and the record of the call.
Called(op, term, type, r) ==
    /\ env' = r.env
    /\ heap' = r.h.heap
    /\ last' = [op |-> op, term |-> term, expected |-> type,
                cached |-> IF term = Null THEN NoTag ELSE lookup(env, term),
                tag |-> r.tag, exc |-> r.exc, entered |-> r.h.entered, scope |-> NoScope,
                repeat |-> op = "synth" /\ term # Null /\ first[term] # NoTag]
    /\ first' = IF op = "synth" /\ term # Null /\ r.exc = "none" /\ first[term] = NoTag
                THEN [first EXCEPT ![term] = r.tag]
                ELSE first
    /\ ncalls' = ncalls + 1
    /\ UNCHANGED <<parents, ancSig, seen, toVisit, ancPc, ancOut, mapObjs, envMap, envOp>>

\* The driver calls synth(env, term) on the shared env.
Synth(term) ==
    /\ ncalls < MaxCalls
    /\ Called("synth", term, NoTag, synth(env, [heap |-> heap, entered |-> {}], 1, term))

\* A call check(env, term, type) on the shared env.
Check(term, type) ==
    /\ ncalls < MaxCalls
    /\ Called("check", term, type, check(env, [heap |-> heap, entered |-> {}], 1, term, type))

\* What a scope query leaves behind: the shared env is not involved.
Scoped(self, r) ==
    /\ heap' = r.h.heap
    /\ last' = [op |-> "getScope", term |-> self, expected |-> NoTag,
                cached |-> NoTag, tag |-> NoTag, exc |-> r.exc, entered |-> r.h.entered,
                scope |-> IF r.exc = "none" THEN r.tag ELSE NoScope, repeat |-> FALSE]
    /\ ncalls' = ncalls + 1
    /\ UNCHANGED <<env, first, parents, ancSig, seen, toVisit, ancPc, ancOut, mapObjs, envMap, envOp>>

\* The linker asks the scope provider for the scope of the reference of self;
\* the provider synthesizes in a TypeEnv of its own.
GetScope(self) ==
    /\ ncalls < MaxCalls
    /\ Scoped(self, getScope(parents, [heap |-> heap, entered |-> {}], self))

\* The terms the driver checks against an expected type.
CheckTerms == {"Plus12", "PlusMix", "IteOk", "IteBad", "f", "pr", "xD", "xB", "vCyc"}

\* The terms the driver synthesizes: every declaration and expression, and
\* the inner nodes whose cached type another term reads.
SynthTerms ==
    {Null, "SigA", "SigD", "RelA_r", "RelD_own", "TA_own", "xD", "xB", "xU",
     "vCyc", "vBad", "RefBad", "vNum", "JoinOwn", "JoinInh", "JoinMiss", "JoinStr",
     "JoinOwn_l", "Plus12", "PlusMix", "Lt34", "AndTF", "Num1", "Mix_r", "IteOk",
     "IteBad", "f", "f_x", "f_T0", "f_body", "AppF1", "AppFT", "AppF0", "AppF2",
     "AppX", "AppF2_b", "pr", "pr_p", "pr_y", "g00", "g11", "g20", "g10", "g11_x"}

\* The references the linker asks a scope for.
ScopedRefs == {"JoinOwn_r", "JoinInh_r", "JoinMiss_r", "JoinStr_r", "JoinOwn_l"}

Next ==
    \/ \E term \in SynthTerms : Synth(term)
    \/ \E term \in CheckTerms, type \in ExpectedTypes : Check(term, type)
    \/ \E self \in ScopedRefs : GetScope(self)

Spec == Init /\ [][Next]_vars


(***************************************************************************)
(* getSigAncestors, one loop iteration at a time, on every parent graph    *)
(***************************************************************************)
\* The parent lists a Sig may carry: up to two references, each to one of the
\* Sigs A, B, C or unresolved.
ParentTargets == {"SigA", "SigB", "SigC", NoRef}

ParentLists ==
    {<<>>} \cup {<<a>> : a \in ParentTargets} \cup {<<a, b>> : a, b \in ParentTargets}

\* The parent graphs: any lists on A, B and C (cycles included); D -> B, C.
AncGraphs ==
    {"SigA" :> la @@ "SigB" :> lb @@ "SigC" :> lc @@ "SigD" :> <<"SigB", "SigC">> :
        la \in ParentLists, lb \in ParentLists, lc \in ParentLists}

AncInit ==
    /\ env = EmptyEnv
    /\ heap = [s \in Sites |-> 0]
    /\ ncalls = 0
    /\ last = NoCall
    /\ first = EmptyEnv
    /\ parents \in AncGraphs
    /\ AncIdle
    /\ EnvIdle

\* getSigAncestors(sig) is called: seen = new Set(), toVisit = [sig].
AncCall(sig) ==
    /\ ancPc = "idle"
    /\ ancSig' = sig
    /\ seen' = <<>>
    /\ toVisit' = <<sig>>
    /\ ancPc' = "loop"
    /\ UNCHANGED <<env, heap, ncalls, last, first, parents, ancOut, mapObjs, envMap, envOp>>

\* One iteration of while (toVisit.length > 0).
AncLoop ==
    /\ ancPc = "loop"
    /\ toVisit # <<>>
    /\ seen' = ancIter(parents, [seen |-> seen, toVisit |-> toVisit]).seen
    /\ toVisit' = ancIter(parents, [seen |-> seen, toVisit |-> toVisit]).toVisit
    /\ UNCHANGED <<env, heap, ncalls, last, first, parents, ancSig, ancPc, ancOut,
                   mapObjs, envMap, envOp>>

\* The loop is left: return Array.from(seen).
AncReturn ==
    /\ ancPc = "loop"
    /\ toVisit = <<>>
    /\ ancOut' = seen
    /\ ancPc' = "done"
    /\ UNCHANGED <<env, heap, ncalls, last, first, parents, ancSig, seen, toVisit,
                   mapObjs, envMap, envOp>>

AncNext ==
    \/ \E sig \in Sigs : AncCall(sig)
    \/ AncLoop
    \/ AncReturn

SpecAnc == AncInit /\ [][AncNext]_vars

\* The loop is sequential code: once called, it keeps running.
SpecAncFair == SpecAnc /\ WF_vars(AncLoop) /\ WF_vars(AncReturn)


(***************************************************************************)
(* TypeEnv objects: construction, set and extendWith on objects that may   *)
(* or may not share a Map                                                  *)
(***************************************************************************)
\* The nodes and tags the calls below are made with.
EnvKeys == {"f_x", "Num1"}

EnvTags == {ExtInteger, ExtBoolean}

NodeTypePairs == {[node |-> n, type |-> t] : n \in EnvKeys, t \in EnvTags}

\* The lists handed to extendWith: no pair, one pair, or a pair for each of
\* the two nodes.
PairLists ==
    {<<>>} \cup {<<a>> : a \in NodeTypePairs}
           \cup {<<a, b>> : a \in {x \in NodeTypePairs : x.node = "f_x"},
                            b \in {x \in NodeTypePairs : x.node = "Num1"}}

\* new TypeEnv(): a new TypeEnv object holding a new, empty Map.
EnvNew ==
    /\ Len(envMap) < MaxEnvs
    /\ mapObjs' = Append(mapObjs, EmptyEnv)
    /\ envMap' = Append(envMap, Len(mapObjs) + 1)
    /\ envOp' = [envOp EXCEPT !.op = "new", !.set = 0]
    /\ UNCHANGED <<env, heap, ncalls, last, first, parents, ancSig, seen, toVisit, ancPc,
                   ancOut>>

\* o.set(node, type): this.envMap.set(node, type).
EnvSet(o, node, type) ==
    /\ o \in 1..Len(envMap)
    /\ mapObjs' = [mapObjs EXCEPT ![envMap[o]] = set(@, node, type)]
    /\ envOp' = [envOp EXCEPT !.op = "set", !.set = o]
    /\ UNCHANGED <<env, heap, ncalls, last, first, parents, ancSig, seen, toVisit, ancPc,
                   ancOut, envMap>>

\* o.extendWith(pairs): return new TypeEnv(newEnvMap).
EnvExtendWith(o, nodeTypePairs) ==
    /\ o \in 1..Len(envMap)
    /\ Len(envMap) < MaxEnvs
    /\ mapObjs' = newEnvMap(mapObjs, envMap[o], nodeTypePairs).mapObjs
    /\ envMap' = Append(envMap, newEnvMap(mapObjs, envMap[o], nodeTypePairs).map)
    /\ envOp' = [op |-> "extendWith", recv |-> o, ret |-> Len(envMap) + 1,
                 pairs |-> nodeTypePairs, set |-> 0]
    /\ UNCHANGED <<env, heap, ncalls, last, first, parents, ancSig, seen, toVisit, ancPc,
                   ancOut>>

EnvNext ==
    \/ EnvNew
    \/ \E o \in 1..MaxEnvs, node \in EnvKeys, type \in EnvTags : EnvSet(o, node, type)
    \/ \E o \in 1..MaxEnvs, nodeTypePairs \in PairLists : EnvExtendWith(o, nodeTypePairs)

SpecEnv == Init /\ [][EnvNext]_vars


(***************************************************************************)
(* Properties                                                              *)
(***************************************************************************)
Range(q) == {q[i] : i \in 1..Len(q)}

RelationNames(relations) == {Ast[r].name : r \in Range(relations)}

\* The relations a Sig declares itself under a name.
OwnRelations(sig, name) == {r \in Range(Ast[sig].relations) : Ast[r].name = name}

RECURSIVE ReachFrom(_, _)

\* The Sigs reachable from the Sigs S over resolved parent links of graph p.
ReachFrom(p, S) ==
    LET T == S \cup {x \in Sigs : \E s \in S : \E i \in 1..Len(p[s]) : p[s][i] = x}
    IN IF T = S THEN S ELSE ReachFrom(p, T)

\* The last driver call was synth on a join whose left operand has a Sig type.
JoinOnSig ==
    /\ last.op = "synth" /\ last.exc = "none"
    /\ kindOf(last.term) = "Join"
    /\ isSigTTag(env[Ast[last.term].left])

JoinLeftSig == env[Ast[last.term].left].sig

JoinRightName == Ast[Ast[last.term].right].refText

\* C1: a second synth call by the driver on a non-null node returns the very
\* tag object the first call returned, without entering synthNewNode for any
\* node (so without recursing into any child).
C1_SynthIdempotent ==
    (last.op = "synth" /\ last.repeat) =>
        /\ last.exc = "none"
        /\ last.tag = first[last.term]
        /\ sameTypeAs(last.tag, first[last.term])
        /\ last.entered = {}

\* A repeated synth call on a node whose synthesis recursed into children.
C1_Witness ==
    /\ last.op = "synth" /\ last.repeat /\ last.term = "JoinOwn"
    /\ isIntegerTTag(last.tag)

\* C2: when synth returns for a non-null node that was not cached, the env
\* maps the node to the returned tag, an Error tag included; the same holds
\* of every node synthNewNode was entered for on the way.
C2_MemoizationWrite ==
    (last.op = "synth" /\ last.term # Null /\ last.cached = NoTag /\ last.exc = "none") =>
        /\ lookup(env, last.term) = last.tag
        /\ \A n \in last.entered : lookup(env, n) # NoTag

\* An Error was returned for a node not cached before, and is now cached.
C2_Witness ==
    /\ last.op = "synth" /\ last.term = "vBad" /\ last.cached = NoTag
    /\ isErrorTypeTag(last.tag)
    /\ isErrorTypeTag(env["vBad"]) /\ isErrorTypeTag(env["RefBad"])

\* C3: whatever the driver calls next on the shared env, a node that has a
\* tag keeps that very tag: no entry is removed or replaced.
C3_CacheMonotone ==
    [][\A n \in Nodes : lookup(env, n) # NoTag => lookup(env', n) = lookup(env, n)]_vars

\* A second call added entries to an env that already held others.
C3_Witness ==
    /\ ncalls = 2 /\ last.cached = NoTag /\ last.entered # {}
    /\ \A n \in last.entered : env[n] # NoTag
    /\ \E n \in Nodes \ last.entered : env[n] # NoTag

\* C4: synth returns also when the resolved references form a cycle: it never
\* exhausts the call stack.
C4_CyclicSynthTerminates == last.op = "synth" => last.exc # "RangeError"

\* C7: two Sig tags are the same type iff they wrap the same declaration, so
\* checking a node of type Sig S1 against Sig S2 with S1 # S2 gives an Error.
C7_SigEqualityByIdentity ==
    /\ \A n, m \in Nodes :
           (isSigTTag(env[n]) /\ isSigTTag(env[m])) =>
               (sameTypeAs(env[n], env[m]) <=> env[n].sig = env[m].sig)
    /\ (/\ last.op = "check" /\ last.exc = "none"
        /\ isSigTTag(env[last.term]) /\ isSigTTag(last.expected)
        /\ env[last.term].sig # last.expected.sig)
           => isErrorTypeTag(last.tag)

\* C8: synth of a join on a Sig that itself declares the relation named on the
\* right returns the type synthesized for that relation's relatum (Integer
\* for a relatum annotated Integer), and the relation's Relation tag is cached.
C8_JoinOwnRelation ==
    JoinOnSig =>
        \A rel \in OwnRelations(JoinLeftSig, JoinRightName) :
            /\ last.tag = env[Ast[rel].relatum]
            /\ last.tag.tag = Ast[Ast[rel].relatum].annot
            /\ isRelationTTag(env[rel])
            /\ env[rel].relationNode = rel
            /\ env[rel].parentSig = JoinLeftSig

\* xD `s` own with own : D -> Integer was synthesized to Integer.
C8_Witness ==
    /\ JoinOnSig /\ last.term = "JoinOwn" /\ last.cached = NoTag
    /\ OwnRelations(JoinLeftSig, JoinRightName) = {"RelD_own"}
    /\ isIntegerTTag(last.tag)
    /\ isRelationTTag(env["RelD_own"])

\* C9: synth of a join on a Sig that does not declare the relation itself but
\* has an ancestor that does returns that relation's relatum type.
C9_JoinInheritedRelation ==
    (JoinOnSig /\ OwnRelations(JoinLeftSig, JoinRightName) = {}) =>
        \A P \in ReachFrom(parents, {JoinLeftSig}) :
            \A rel \in OwnRelations(P, JoinRightName) :
                /\ ~isErrorTypeTag(last.tag)
                /\ last.tag.tag = Ast[Ast[rel].relatum].annot

\* C10: the relation names the scope provider offers for the right-hand side
\* of a join on a Sig are exactly the names synthJoin searches for that Sig.
C10_ScopeAgreesWithJoin ==
    (last.op = "getScope" /\ last.scope.scope = "members") =>
        RelationNames(last.scope.relations)
            = RelationNames(joinSearchedRelations(last.scope.sig))

\* C5: getSigAncestors returns exactly the Sigs reachable over resolved
\* parent links, the argument first and every Sig once; on the diamond
\* D -> B, C -> A that is D first, then B, C and A, each once.
C5_AncestorClosure ==
    ancPc = "done" =>
        /\ Len(ancOut) >= 1 /\ ancOut[1] = ancSig
        /\ Range(ancOut) = ReachFrom(parents, {ancSig})
        /\ Cardinality(Range(ancOut)) = Len(ancOut)
        /\ (parents = DiamondParents /\ ancSig = "SigD") =>
               /\ Range(ancOut) = {"SigD", "SigB", "SigC", "SigA"}
               /\ Len(ancOut) = 4

\* The ancestors of D on the diamond were returned.
C5_Witness ==
    /\ ancPc = "done" /\ parents = DiamondParents /\ ancSig = "SigD"
    /\ Len(ancOut) = 4

\* C6: on every parent graph, cyclic ones included, a call of getSigAncestors
\* returns: the worklist empties.
C6_AncestorsTerminate == (ancPc = "loop") ~> (ancPc = "done" /\ toVisit = <<>>)

\* The call returned on a graph with a self-parent and a longer cycle.
C6_Witness ==
    /\ ancPc = "done" /\ ancSig = "SigD"
    /\ parents["SigB"] = <<"SigA", "SigB">> /\ parents["SigA"] = <<"SigB">>
    /\ Range(ancOut) = {"SigD", "SigB", "SigC", "SigA"}

\* The Sigs among the ancestors of sig (sig included) that declare a
\* relation under the name.
DeclaringAncestors(sig, name) ==
    {P \in ReachFrom(parents, {sig}) : OwnRelations(P, name) # {}}

\* C11: synth of a join whose left operand is of type Sig S, where neither S
\* nor any ancestor of S declares a relation under the right-hand name,
\* returns (it does not throw) an Error tag on the join node whose message
\* names the missing relation and the Sig, and the env caches that tag for
\* the join node.
C11_JoinFailure ==
    (/\ last.op = "synth" /\ kindOf(last.term) = "Join" /\ last.cached = NoTag
     /\ isSigTTag(lookup(env, Ast[last.term].left))
     /\ DeclaringAncestors(JoinLeftSig, JoinRightName) = {})
        => /\ last.exc = "none"
           /\ isErrorTypeTag(last.tag)
           /\ last.tag.astNode = last.term
           /\ last.tag.message
                  = <<"Relatum", JoinRightName, "not found in", Ast[JoinLeftSig].name>>
           /\ lookup(env, last.term) = last.tag

\* xD `s` zz was synthesized: zz is declared on no ancestor of D.
C11_Witness ==
    /\ last.op = "synth" /\ last.term = "JoinMiss" /\ last.cached = NoTag
    /\ isSigTTag(env["JoinMiss_l"]) /\ env["JoinMiss_l"].sig = "SigD"
    /\ DeclaringAncestors("SigD", "zz") = {}
    /\ isErrorTypeTag(env["JoinMiss"])

\* What check(env, n, type) returns on the env as it is now.
CheckedNow(n, type) == check(env, [heap |-> heap, entered |-> {}], 1, n, type).tag

\* What synth(env, n) returns on the env as it is now.
SynthNow(n) == synth(env, [heap |-> heap, entered |-> {}], 1, n).tag

\* Both operands of the binary expression b check against type.
OperandsCheck(b, type) ==
    /\ sameTypeAs(CheckedNow(Ast[b].left, type), type)
    /\ sameTypeAs(CheckedNow(Ast[b].right, type), type)

BothNumberLiterals(b) ==
    kindOf(Ast[b].left) = "NumberLiteral" /\ kindOf(Ast[b].right) = "NumberLiteral"

\* C12: check of a binary expression against an expected type returns the
\* expected type exactly when checking each operand against it gives a tag
\* that is sameTypeAs it, and otherwise an Error tag on the binary
\* expression; an arithmetic expression over two integer literals checks
\* against Integer and fails against Boolean.
C12_CheckBinExpr ==
    (last.op = "check" /\ kindOf(last.term) = "BinExpr" /\ last.exc = "none") =>
        /\ (last.tag = last.expected) <=> OperandsCheck(last.term, last.expected)
        /\ ~OperandsCheck(last.term, last.expected) =>
               (isErrorTypeTag(last.tag) /\ last.tag.astNode = last.term)
        /\ (Ast[last.term].op \in ARITH_OPERATORS /\ BothNumberLiterals(last.term)) =>
               /\ isIntegerTTag(last.expected) => last.tag = last.expected
               /\ isBooleanTTag(last.expected) => isErrorTypeTag(last.tag)

\* 1 + true was checked against Integer: the left operand checks, the right
\* one does not, and the result is an Error on the expression.
C12_Witness ==
    /\ last.op = "check" /\ last.term = "PlusMix" /\ last.expected = ExtInteger
    /\ isIntegerTTag(env["Mix_l"]) /\ isBooleanTTag(env["Mix_r"])
    /\ isErrorTypeTag(last.tag) /\ last.tag.astNode = "PlusMix"

\* The last driver call synthesized a function application not cached before.
AppSynthesized ==
    /\ last.op = "synth" /\ kindOf(last.term) = "FunctionApplication"
    /\ last.cached = NoTag /\ last.exc = "none"

\* The type cached for the callee of the application.
CalleeType == lookup(env, Ast[last.term].func)

\* The positions at which an argument is paired with a parameter type: the
\* first min(#arguments, #parameters).
PairedPositions ==
    1..(IF Len(Ast[last.term].args) < Len(CalleeType.parameters)
        THEN Len(Ast[last.term].args)
        ELSE Len(CalleeType.parameters))

\* What checking the i-th argument against the i-th parameter type returns.
ArgCheck(i) == CheckedNow(Ast[last.term].args[i], getParameters(CalleeType)[i].type)

\* C13: synth of a function application whose callee has a Function type
\* returns the Error of a failing argument check when the check of some
\* paired argument against its parameter type gives an Error, and the
\* callee's return type when every paired check passes; when the callee has
\* no Function type the result is an Error.  With f : (Integer) => Boolean,
\* f(true) is an Error and f(1) is Boolean.
C13_FunctionApplication ==
    AppSynthesized =>
        IF isFunctionTTag(CalleeType)
        THEN /\ (\E i \in PairedPositions : isErrorTypeTag(ArgCheck(i))) =>
                    /\ isErrorTypeTag(last.tag)
                    /\ \E i \in PairedPositions :
                           isErrorTypeTag(ArgCheck(i)) /\ sameTypeAs(last.tag, ArgCheck(i))
             /\ (\A i \in PairedPositions : ~isErrorTypeTag(ArgCheck(i))) =>
                    last.tag = CalleeType.returnType
             /\ (/\ Len(getParameters(CalleeType)) = 1 /\ Len(Ast[last.term].args) = 1
                 /\ isIntegerTTag(getParameters(CalleeType)[1].type)
                 /\ isBooleanTTag(CalleeType.returnType)) =>
                    /\ kindOf(Ast[last.term].args[1]) = "BooleanLiteral" =>
                           isErrorTypeTag(last.tag)
                    /\ kindOf(Ast[last.term].args[1]) = "NumberLiteral" =>
                           isBooleanTTag(last.tag)
        ELSE isErrorTypeTag(last.tag)

\* f(true) was synthesized with f : (x : Integer) => Boolean: an Error.
C13_Witness ==
    /\ AppSynthesized /\ last.term = "AppFT"
    /\ isFunctionTTag(CalleeType) /\ isBooleanTTag(CalleeType.returnType)
    /\ isErrorTypeTag(ArgCheck(1))
    /\ isErrorTypeTag(last.tag) /\ last.tag.astNode = "AppFT_a"

\* The condition of the conditional c synthesizes to Boolean and both of its
\* branches synthesize to a type that is sameTypeAs type.
IteChecksPass(c, type) ==
    /\ isBooleanTTag(SynthNow(Ast[c].condition))
    /\ sameTypeAs(SynthNow(Ast[c].then), type)
    /\ sameTypeAs(SynthNow(Ast[c].else), type)

\* C14: check of a conditional against an expected type returns the expected
\* type exactly when the condition synthesizes to Boolean and both branches
\* synthesize to a type sameTypeAs the expected one; in every other case it
\* returns an Error tag on the conditional.  A Boolean-literal condition with
\* two integer-literal branches checks against Integer; an integer-literal
\* condition fails.
C14_CheckIfThenElse ==
    (last.op = "check" /\ kindOf(last.term) = "IfThenElseExpr" /\ last.exc = "none") =>
        /\ (last.tag = last.expected) <=> IteChecksPass(last.term, last.expected)
        /\ ~IteChecksPass(last.term, last.expected) =>
               (isErrorTypeTag(last.tag) /\ last.tag.astNode = last.term)
        /\ (/\ isIntegerTTag(last.expected)
            /\ kindOf(Ast[last.term].then) = "NumberLiteral"
            /\ kindOf(Ast[last.term].else) = "NumberLiteral") =>
               /\ kindOf(Ast[last.term].condition) = "BooleanLiteral" =>
                      last.tag = last.expected
               /\ kindOf(Ast[last.term].condition) = "NumberLiteral" =>
                      isErrorTypeTag(last.tag)

\* if (1) then 1 else 2 was checked against Integer: an Error.
C14_Witness ==
    /\ last.op = "check" /\ last.term = "IteBad" /\ last.expected = ExtInteger
    /\ isIntegerTTag(env["IteBad_c"])
    /\ isErrorTypeTag(last.tag) /\ last.tag.astNode = "IteBad"

\* lookup on the TypeEnv object o.
lookupIn(ms, em, o, node) == lookup(ms[em[o]], node)

\* The step is a call of extendWith.
ExtendStep == envOp'.op = "extendWith" /\ Len(envMap') = Len(envMap) + 1

\* The step is a call of set on the object envOp'.set.
SetStep == envOp'.op = "set" /\ envMap' = envMap

\* C15: extendWith returns a new environment whose lookup gives, for a node
\* of the pairs, a tag the pairs give it (also when the receiver binds the
\* node) and, for every other node, the receiver's tag; the call leaves the
\* bindings of the receiver (and of every other environment) as they were;
\* and a set call on one environment changes the lookups of no other one, so
\* neither of the receiver when made on the returned environment nor of the
\* returned environment when made on the receiver.
C15_ExtendWithOverlay ==
    [][/\ ExtendStep =>
              /\ \A n \in Nodes :
                     IF \E i \in 1..Len(envOp'.pairs) : envOp'.pairs[i].node = n
                     THEN \E i \in 1..Len(envOp'.pairs) :
                              /\ envOp'.pairs[i].node = n
                              /\ lookupIn(mapObjs', envMap', envOp'.ret, n)
                                     = envOp'.pairs[i].type
                     ELSE lookupIn(mapObjs', envMap', envOp'.ret, n)
                              = lookupIn(mapObjs, envMap, envOp'.recv, n)
              /\ \A o \in 1..Len(envMap), n \in Nodes :
                     lookupIn(mapObjs', envMap', o, n) = lookupIn(mapObjs, envMap, o, n)
       /\ SetStep =>
              \A o \in 1..Len(envMap) \ {envOp'.set} : \A n \in Nodes :
                  lookupIn(mapObjs', envMap', o, n) = lookupIn(mapObjs, envMap, o, n)
      ]_vars

\* An environment binding x was extended with a pair that binds x to another
\* tag, and set was then called on the returned environment: the receiver
\* still has its binding of x and none of the node set.
C15_Witness ==
    /\ envOp.op = "set" /\ envOp.recv = 1 /\ envOp.ret = 2 /\ envOp.set = 2
    /\ envOp.pairs = <<[node |-> "f_x", type |-> ExtBoolean]>>
    /\ lookupIn(mapObjs, envMap, 1, "f_x") = ExtInteger
    /\ lookupIn(mapObjs, envMap, 2, "f_x") = ExtBoolean
    /\ lookupIn(mapObjs, envMap, 1, "Num1") = NoTag
    /\ lookupIn(mapObjs, envMap, 2, "Num1") = ExtInteger

\* The step is a returning driver call of check on a function declaration.
CheckFunDeclStep ==
    /\ ncalls' = ncalls + 1
    /\ last'.op = "check" /\ kindOf(last'.term) = "FunDecl" /\ last'.exc = "none"

\* The env in which every parameter of the function type is bound to its
\* parameter type and every other node is bound as in env.
ParamsBound(type) ==
    [n \in Nodes |->
        IF \E i \in 1..Len(type.parameters) : type.parameters[i].param = n
        THEN type.parameters[CHOOSE i \in 1..Len(type.parameters) :
                                 type.parameters[i].param = n].type
        ELSE env[n]]

\* C16: check of a function declaration returns an Error on the declaration
\* when the expected type is no Function tag; otherwise it returns what
\* checking the body against the expected return type returns in the env
\* extended by the expected type's parameter bindings.  In both cases the
\* caller's env is as it was before the call.
C16_CheckFunDecl ==
    [][CheckFunDeclStep =>
           /\ env' = env
           /\ ~isFunctionTTag(last'.expected) =>
                  (isErrorTypeTag(last'.tag) /\ last'.tag.astNode = last'.term)
           /\ isFunctionTTag(last'.expected) =>
                  last'.tag = check(ParamsBound(last'.expected),
                                    [heap |-> heap, entered |-> {}], 2,
                                    Ast[last'.term].body, last'.expected.returnType).tag
      ]_vars

\* f was checked against (x : Boolean) => Boolean: the body x has the bound
\* type Boolean, the type synthesized for the body was written to the
\* overlay, and the caller's env holds nothing for it.
C16_Witness ==
    /\ last.op = "check" /\ last.term = "f" /\ last.expected = ExtFunB
    /\ last.tag = ExtBoolean
    /\ last.entered = {"f_body"}
    /\ lookup(env, "f_body") = NoTag

\* The last driver call synthesized a function declaration not cached before.
FunDeclSynthesized ==
    last.op = "synth" /\ kindOf(last.term) = "FunDecl" /\ last.cached = NoTag

\* C17: synth of a function declaration with exactly one type slot more than
\* formal parameters returns a Function tag that pairs the i-th parameter
\* with the type synthesized for the i-th slot and has the type synthesized
\* for the last slot as return type; with any other numbers of slots and
\* parameters it returns an Error tag, so that a Function tag returned always
\* has a return type.
C17_FunctionTypeConstruction ==
    FunDeclSynthesized =>
        /\ last.exc = "none"
        /\ IF Len(Ast[last.term].types) = Len(Ast[last.term].params) + 1
           THEN /\ isFunctionTTag(last.tag)
                /\ Len(last.tag.parameters) = Len(Ast[last.term].params)
                /\ \A i \in 1..Len(Ast[last.term].params) :
                       /\ last.tag.parameters[i].param = Ast[last.term].params[i]
                       /\ last.tag.parameters[i].type = lookup(env, Ast[last.term].types[i])
                /\ last.tag.returnType
                       = lookup(env, Ast[last.term].types[Len(Ast[last.term].types)])
           ELSE isErrorTypeTag(last.tag)
        /\ isFunctionTTag(last.tag) => last.tag.returnType # Undefined

\* The arguments of the application beyond the paired positions.
UnpairedArgs ==
    {Ast[last.term].args[i] : i \in (1..Len(Ast[last.term].args)) \ PairedPositions}

\* C18: synth of an application with fewer or more arguments than the
\* callee's Function tag has parameters gives no arity Error: the arguments
\* beyond the first min(#arguments, #parameters) are not looked at, and when
\* the paired ones check, the application has the callee's return type (so
\* with no argument at all it has the return type).
C18_ArityNotEnforced ==
    (/\ AppSynthesized /\ isFunctionTTag(CalleeType)
     /\ Len(Ast[last.term].args) # Len(getParameters(CalleeType))) =>
        /\ (\A i \in PairedPositions : ~isErrorTypeTag(ArgCheck(i))) =>
               last.tag = CalleeType.returnType
        /\ isErrorTypeTag(last.tag) =>
               \E i \in PairedPositions : last.tag.astNode = Ast[last.term].args[i]
        /\ Ast[last.term].args = <<>> => last.tag = CalleeType.returnType
        /\ UnpairedArgs \cap last.entered = {}

\* f(1, true) was synthesized with f : (x : Integer) => Boolean: Boolean, and
\* the second argument was not synthesized.
C18_Witness ==
    /\ AppSynthesized /\ last.term = "AppF2" /\ isFunctionTTag(CalleeType)
    /\ Len(getParameters(CalleeType)) = 1
    /\ isBooleanTTag(last.tag)
    /\ "AppF2_a" \in last.entered /\ "AppF2_b" \notin last.entered

\* The operator of the binary expression b is a comparison or AND / OR.
BooleanProducing(b) ==
    Ast[b].op \in {"OpLt", "OpLte", "OpGt", "OpGte", "OpEquals", "OpNotEquals", "OpAnd", "OpOr"}

\* C19: synth of a binary expression with a comparison or AND / OR operator
\* returns Boolean exactly when both operands check against Boolean, and an
\* Error otherwise: a comparison of two integer literals synthesizes to an
\* Error, while an arithmetic expression over two integer literals
\* synthesizes to Integer.
C19_SynthBooleanBinExpr ==
    (/\ last.op = "synth" /\ kindOf(last.term) = "BinExpr"
     /\ last.cached = NoTag /\ last.exc = "none") =>
        /\ BooleanProducing(last.term) =>
               /\ isBooleanTTag(last.tag) <=> OperandsCheck(last.term, ExtBoolean)
               /\ ~OperandsCheck(last.term, ExtBoolean) => isErrorTypeTag(last.tag)
               /\ BothNumberLiterals(last.term) => isErrorTypeTag(last.tag)
        /\ (Ast[last.term].op \in {"OpPlus", "OpMinus", "OpMult", "OpDiv"}
            /\ BothNumberLiterals(last.term)) => isIntegerTTag(last.tag)

\* 3 < 4 was synthesized: its operands are Integer and the result is an Error.
C19_Witness ==
    /\ last.op = "synth" /\ last.term = "Lt34" /\ last.cached = NoTag
    /\ isIntegerTTag(env["Num3"]) /\ isIntegerTTag(env["Num4"])
    /\ isErrorTypeTag(last.tag) /\ last.tag.astNode = "Lt34"
    /\ env["Lt34"] = last.tag

=============================================================================
